---- MODULE Spec2Model ----
(***************************************************************************)
(* Spaced-repetition review scheduler and level progress of the English    *)
(* learning app: app/services/vocabulary_service.py (get_practice_words,   *)
(* update_word_progress), app/services/progress_service.py                 *)
(* (get_level_progress, get_overall_progress, mark_grammar_completed,      *)
(* mark_word_completed), app/services/test_service.py (check_answer) and   *)
(* the tables of app/models, app/routes/progress.py (level_progress).      *)
(*                                                                         *)
(* Representation.  Timestamps are integers counted in clock ticks,        *)
(* TicksPerDay ticks to a day.  ease_factor is kept in tenths (25 is 2.5): *)
(* every value the code produces is 2.5 plus a whole number of steps of    *)
(* 0.1 and -0.2, clamped; int(interval * ease_factor) is computed as       *)
(* (interval * tenths) \div 10 (the float carries a rounding error of a    *)
(* few units in the last place, which changes neither the clamping nor     *)
(* int(interval * ease_factor) along any sequence of up to 400 answers).   *)
(* A NULL column is NULL.  The clock starts in 2026; a date more than      *)
(* DAYS_TO_DATETIME_MAX days later is past datetime.max.                   *)
(*                                                                         *)
(* Specifications.  Spec: sequential requests on several rows, with        *)
(* get_practice_words.  SpecAnswers: answers to one word.  SpecRow:        *)
(* answers to and marks of one word.  SpecConc: requests interleaved at    *)
(* their awaits.  SpecCounts: the progress computation on the results of  *)
(* its count queries, and the level_progress route on them.  SpecGrammar:  *)
(* answers to and marks of one grammar rule.  SpecLevel: the progress      *)
(* views on the tables.  SpecBatch: practice batches and progress views of *)
(* one user over days, with two users answering.  SpecSnapshots: progress  *)
(* snapshots while answers and marks interleave.                           *)
(***************************************************************************)
EXTENDS Integers, Sequences, FiniteSets, TLC

VARIABLES
    vocab_progress,   \* table user_vocabulary_progress: sequence of rows, row i has id i
    grammar_progress, \* table user_grammar_progress: sequence of rows, row i has id i
    test_history,     \* table test_history: sequence of rows, row i has id i
    users,            \* table users: the row of each registered user
    now,              \* the clock read by datetime.utcnow(), in ticks
    call,             \* the most recent completed service call: arguments, exception, returned list
    sessions          \* per request: the AsyncSession between its SELECT and its commit

vars == <<vocab_progress, grammar_progress, test_history, users, now, call, sessions>>

----------------------------------------------------------------------------
(* Bounds of the model *)

MaxAttempts == 17      \* a word is not answered again once its attempts reaches this
MaxChecks == 8         \* a rule is not answered again once its total_attempts reaches this
MaxWrites == 2         \* total answers/marks in the multi-row specification
MaxClock == 2          \* the clock stops ticking at this tick, and skips no day after it
MaxCount == 3          \* largest batch size requested
TicksPerDay == 2       \* resolution of the clock
MaxTotal == 10         \* largest number of rules or words of a level, but for LargeCounts

(* Program constants *)

NULL == -1
REQUIRED_CORRECT_ATTEMPTS == 3
EASE_DEFAULT == 25     \* ease_factor=2.5
EASE_MAX == 25         \* min(2.5, ...)
EASE_MIN == 13         \* max(1.3, ...)
EASE_UP == 1           \* + 0.1
EASE_DOWN == 2         \* - 0.2
INTERVAL_FIRST == 1
INTERVAL_SECOND == 6
DAYS_TO_DATETIME_MAX == 2912136  \* whole days from the clock's origin (2026) to datetime.max

Users == {1, 2}

(* A row of users as create_user stores it: current_level takes its default. *)
User(id) == [id |-> id, current_level |-> "A1"]

None == "None"         \* Python's None where a string may stand
Requests == {1, 2}     \* HTTP requests in flight, each with its own AsyncSession

(* The dictionary table: static content.  word is the collation rank of   *)
(* the word's text (ORDER BY Dictionary.word); two rows may carry the     *)
(* same text.  level is stored lower-case.                                 *)
Dictionary ==
    << [id |-> 1, word |-> 2, level |-> "a1"],
       [id |-> 2, word |-> 1, level |-> "a1"],
       [id |-> 3, word |-> 2, level |-> "a1"],
       [id |-> 4, word |-> 2, level |-> "b1"] >>

DictionaryIds == DOMAIN Dictionary

(* Word ids a client may submit: the dictionary's, and one that is in no row. *)
WordIds == 1..(Len(Dictionary) + 1)

(* The (user, word) pairs that submit answers and marks in the multi-row  *)
(* specification: the first user on every word id, the second on one word. *)
Submissions == {<<1, w>> : w \in WordIds} \cup {<<2, 1>>}

(* The pairs that submit concurrently in the interleaved specification. *)
ConcurrentSubmissions == {<<1, 1>>, <<1, 2>>, <<2, 1>>}

(* Level spellings submitted by callers, and str.lower() on them. *)
LevelInputs == {"A1", "a1", "B1", "C2"}

lower_unchanged(level) == level

lower(level) ==
    CASE level = "A1" -> "a1"
      [] level = "A2" -> "a2"
      [] level = "B1" -> "b1"
      [] level = "B2" -> "b2"
      [] level = "C1" -> "c1"
      [] level = "C2" -> "c2"
      [] level = "X1" -> "x1"
      [] OTHER -> level

(* str.upper() on them *)
upper(level) ==
    CASE level = "a1" -> "A1"
      [] level = "a2" -> "A2"
      [] level = "b1" -> "B1"
      [] level = "b2" -> "B2"
      [] level = "c1" -> "C1"
      [] level = "c2" -> "C2"
      [] level = "x1" -> "X1"
      [] OTHER -> level

Min(a, b) == IF a <= b THEN a ELSE b
Max(a, b) == IF a >= b THEN a ELSE b

----------------------------------------------------------------------------
(* The progress table *)

(* The snapshot dictionary get_level_progress returns; percentages in      *)
(* tenths of a percent.                                                    *)
NoSnapshot ==
    [level |-> "", total_grammar |-> 0, completed_grammar |-> 0,
     total_words |-> 0, completed_words |-> 0,
     grammar_completion_pct |-> 0, vocab_completion_pct |-> 0,
     can_advance |-> FALSE, next_level |-> None]

(* A completed service call: its arguments, the exception it raised, and   *)
(* what it returned: returned is the list of get_practice_words, snapshot  *)
(* the dictionary of get_level_progress (grammar_pct and vocab_pct its     *)
(* unrounded percentages), current_level and levels the dictionary of      *)
(* get_overall_progress.  due and new are the lists due_words and         *)
(* new_words of get_practice_words, as extended into words.                *)
NoCall ==
    [op |-> "none", user_id |-> 0, word_id |-> 0, grammar_id |-> "", is_correct |-> FALSE,
     level |-> "", count |-> 0, raised |-> "none", returned |-> <<>>,
     due |-> <<>>, new |-> <<>>,
     snapshot |-> NoSnapshot, grammar_pct |-> [num |-> 0, den |-> 1],
     vocab_pct |-> [num |-> 0, den |-> 1], current_level |-> "", levels |-> <<>>]

(* SELECT ... WHERE user_id = :u AND word_id = :w; scalar_one_or_none().   *)
(* The ids of the matching rows.                                           *)
matching_rows(table, user_id, word_id) ==
    {i \in DOMAIN table :
        table[i].user_id = user_id /\ table[i].word_id = word_id}

(* scalar_one_or_none(): the row id, or 0 for None.  More than one match   *)
(* raises MultipleResultsFound, modelled by NULL (no state reaches it).    *)
scalar_one_or_none(ids) ==
    IF ids = {} THEN 0
    ELSE IF Cardinality(ids) = 1 THEN CHOOSE i \in ids : TRUE
    ELSE NULL

uix_user_word_missing(table, user_id, word_id) == TRUE

(* UniqueConstraint('user_id', 'word_id', name='uix_user_word')            *)
uix_user_word(table, user_id, word_id) ==
    matching_rows(table, user_id, word_id) = {}

(* UserVocabularyProgress(...) as INSERTed: the constructor's keyword      *)
(* arguments, the column defaults for the columns left unset.  ease_factor *)
(* is declared Integer; the SQLite store of config.py keeps a non-integral *)
(* value in such a column as the real it is, so 2.3 is read back as 2.3.   *)
UserVocabularyProgress(id, user_id, word_id, attempts, completed) ==
    [id |-> id, user_id |-> user_id, word_id |-> word_id,
     completed |-> completed, attempts |-> attempts, correct_count |-> 0,
     last_review |-> NULL, next_review |-> NULL,
     interval |-> 1, ease_factor |-> EASE_DEFAULT]

(* The SM-2 step of update_word_progress on the in-memory object:          *)
(* progress as loaded (or as just constructed), t the call's now.          *)
sm2_interval(progress, correct_count) ==
    IF correct_count = 1 THEN INTERVAL_FIRST
    ELSE IF correct_count = 2 THEN INTERVAL_SECOND
    ELSE (progress.interval * progress.ease_factor) \div 10

ease_correct_unclamped(ease_factor) == ease_factor + EASE_UP

ease_correct(ease_factor) == Min(EASE_MAX, ease_factor + EASE_UP)

ease_incorrect_unclamped(ease_factor) == ease_factor - EASE_DOWN

ease_incorrect(ease_factor) == Max(EASE_MIN, ease_factor - EASE_DOWN)

completed_after_correct_early(progress, correct_count) ==
    IF correct_count >= REQUIRED_CORRECT_ATTEMPTS - 1 THEN TRUE ELSE progress.completed

completed_after_correct_late(progress, correct_count) ==
    IF correct_count > REQUIRED_CORRECT_ATTEMPTS THEN TRUE ELSE progress.completed

completed_after_correct_recomputed(progress, correct_count) ==
    correct_count >= REQUIRED_CORRECT_ATTEMPTS

completed_after_correct(progress, correct_count) ==
    IF correct_count >= REQUIRED_CORRECT_ATTEMPTS THEN TRUE ELSE progress.completed

next_review_at_once(t, interval) == t

next_review_at(t, interval) == t + interval * TicksPerDay

(* now + timedelta(days=interval) raises OverflowError when the date lies  *)
(* past datetime.max (year 9999).                                          *)
date_out_of_range(t, interval) ==
    next_review_at(t, interval) > DAYS_TO_DATETIME_MAX * TicksPerDay

answer_correct_stale_interval(progress, t) ==
    LET correct_count == progress.correct_count + 1
        interval == sm2_interval(progress, correct_count)
    IN  [progress EXCEPT
            !.attempts = progress.attempts + 1,
            !.last_review = t,
            !.correct_count = correct_count,
            !.interval = interval,
            !.ease_factor = ease_correct(progress.ease_factor),
            !.completed = completed_after_correct(progress, correct_count),
            !.next_review = next_review_at(t, progress.interval)]

answer_correct(progress, t) ==
    LET correct_count == progress.correct_count + 1
        interval == sm2_interval(progress, correct_count)
    IN  [progress EXCEPT
            !.attempts = progress.attempts + 1,
            !.last_review = t,
            !.correct_count = correct_count,
            !.interval = interval,
            !.ease_factor = ease_correct(progress.ease_factor),
            !.completed = completed_after_correct(progress, correct_count),
            !.next_review = next_review_at(t, interval)]

answer_incorrect_keeps_completed(progress, t) ==
    [progress EXCEPT
        !.attempts = progress.attempts + 1,
        !.last_review = t,
        !.correct_count = 0,
        !.interval = 1,
        !.ease_factor = Max(EASE_MIN, progress.ease_factor - EASE_DOWN),
        !.next_review = t + TicksPerDay]

answer_incorrect_interval_zero(progress, t) ==
    [progress EXCEPT
        !.attempts = progress.attempts + 1,
        !.last_review = t,
        !.correct_count = 0,
        !.interval = 0,
        !.completed = FALSE,
        !.ease_factor = ease_incorrect(progress.ease_factor),
        !.next_review = next_review_at(t, 0)]

answer_incorrect(progress, t) ==
    [progress EXCEPT
        !.attempts = progress.attempts + 1,
        !.last_review = t,
        !.correct_count = 0,
        !.interval = 1,
        !.completed = FALSE,
        !.ease_factor = ease_incorrect(progress.ease_factor),
        !.next_review = next_review_at(t, 1)]

answer(progress, is_correct, t) ==
    IF is_correct THEN answer_correct(progress, t) ELSE answer_incorrect(progress, t)

(* The exception update_word_progress raises before its commit, "none" if  *)
(* it reaches the commit: the interval of a correct answer may put         *)
(* next_review out of the range of datetime.                               *)
answer_raises(progress, is_correct, t) ==
    IF is_correct /\ date_out_of_range(t, sm2_interval(progress, progress.correct_count + 1))
    THEN "OverflowError" ELSE "none"

(* mark_word_completed on a loaded row. *)
mark_loaded(progress) ==
    [progress EXCEPT !.attempts = progress.attempts + 1, !.completed = TRUE]

(* db.commit() of a session holding one object.                            *)
(* A loaded object is flushed as UPDATE ... SET <the columns whose value   *)
(* differs from the loaded one> WHERE id = :id: the other columns keep     *)
(* what the table holds at commit time.                                    *)
Columns ==
    {"completed", "attempts", "correct_count", "last_review", "next_review",
     "interval", "ease_factor"}

flush_update(table, loaded, object) ==
    [table EXCEPT ![loaded.id] =
        [c \in DOMAIN loaded |->
            IF c \in Columns /\ object[c] # loaded[c] THEN object[c] ELSE table[loaded.id][c]]]

(* A new object is flushed as INSERT with the next autoincrement id; the   *)
(* unique constraint rejects it (IntegrityError) when the pair has a row.  *)
flush_insert(table, object) ==
    Append(table, [object EXCEPT !.id = Len(table) + 1])

(* The object a service holds after its SELECT: the row loaded, or the     *)
(* object it constructs when there is none (id 0: not yet in the table).   *)
(* With several rows matching, scalar_one_or_none raised: id NULL.         *)
loaded_or_new(table, user_id, word_id, attempts, completed) ==
    LET id == scalar_one_or_none(matching_rows(table, user_id, word_id))
    IN  IF id = 0
        THEN UserVocabularyProgress(0, user_id, word_id, attempts, completed)
        ELSE IF id = NULL
        THEN UserVocabularyProgress(NULL, user_id, word_id, attempts, completed)
        ELSE table[id]

commit(table, loaded, object) ==
    IF loaded.id = NULL
    THEN [table |-> table, raised |-> "MultipleResultsFound"]
    ELSE IF loaded.id # 0
    THEN [table |-> flush_update(table, loaded, object), raised |-> "none"]
    ELSE IF uix_user_word(table, object.user_id, object.word_id)
    THEN [table |-> flush_insert(table, object), raised |-> "none"]
    ELSE [table |-> table, raised |-> "IntegrityError"]

(* Sum of attempts over the table: the number of answers and marks made. *)
RECURSIVE total_attempts(_)
total_attempts(table) ==
    IF table = <<>> THEN 0
    ELSE table[Len(table)].attempts + total_attempts(SubSeq(table, 1, Len(table) - 1))

IdleSession ==
    [pc |-> "idle", op |-> "none", is_correct |-> FALSE, now |-> 0,
     progress |-> UserVocabularyProgress(0, 0, 0, 0, FALSE)]

(* Requests between their SELECT and their commit. *)
in_flight == {r \in Requests : sessions[r].pc # "idle"}

----------------------------------------------------------------------------
(* Initial state: empty progress table, no request in flight. *)

Init ==
    /\ vocab_progress = <<>>
    /\ grammar_progress = <<>>
    /\ test_history = <<>>
    /\ users = [u \in Users |-> User(u)]
    /\ now = 0
    /\ call = NoCall
    /\ sessions = [r \in Requests |-> IdleSession]

(* The clock advances. *)
Tick ==
    /\ now < MaxClock
    /\ now' = now + 1
    /\ UNCHANGED <<grammar_progress, test_history, users, vocab_progress, call, sessions>>

(* A day passes with no request. *)
Day ==
    /\ now <= MaxClock
    /\ now' = now + TicksPerDay
    /\ UNCHANGED <<grammar_progress, test_history, users, vocab_progress, call, sessions>>

(* The route handler returns its response; the request is over. *)
respond ==
    /\ call # NoCall
    /\ call' = NoCall
    /\ UNCHANGED <<grammar_progress, test_history, users, vocab_progress, now, sessions>>

(* update_word_progress(db, user_id, word_id, is_correct), run to its      *)
(* commit with no other request in between.                                *)
update_word_progress(user_id, word_id, is_correct) ==
    LET progress == loaded_or_new(vocab_progress, user_id, word_id, 0, FALSE)
        raised == answer_raises(progress, is_correct, now)
        object == answer(progress, is_correct, now)
        done == IF raised = "none" THEN commit(vocab_progress, progress, object)
                ELSE [table |-> vocab_progress, raised |-> raised]
    IN  /\ progress.attempts < MaxAttempts
        /\ vocab_progress' = done.table
        /\ call' = [NoCall EXCEPT !.op = "update_word_progress",
                        !.user_id = user_id, !.word_id = word_id,
                        !.is_correct = is_correct, !.raised = done.raised]
        /\ UNCHANGED <<grammar_progress, test_history, users, now, sessions>>

(* mark_word_completed(db, user_id, word_id), run to its commit. *)
mark_word_completed(user_id, word_id) ==
    LET progress == loaded_or_new(vocab_progress, user_id, word_id, 1, TRUE)
        object == IF progress.id = 0 THEN progress ELSE mark_loaded(progress)
        done == commit(vocab_progress, progress, object)
    IN  /\ progress.attempts < MaxAttempts
        /\ vocab_progress' = done.table
        /\ call' = [NoCall EXCEPT !.op = "mark_word_completed",
                        !.user_id = user_id, !.word_id = word_id,
                        !.raised = done.raised]
        /\ UNCHANGED <<grammar_progress, test_history, users, now, sessions>>

----------------------------------------------------------------------------
(* get_practice_words *)

(* The sequences a query may return for the rows S under ORDER BY key:     *)
(* every enumeration of S in ascending key order (equal keys in any order).*)
(* key is a function giving each row's sort key.                           *)
order_by(S, key) ==
    {f \in [1..Cardinality(S) -> S] :
        /\ \A i, j \in 1..Cardinality(S) : i # j => f[i] # f[j]
        /\ \A i, j \in 1..Cardinality(S) : i < j => key[f[i]] <= key[f[j]]}

(* .limit(n), and list[:n], for n >= 0 *)
limit(seq, n) == SubSeq(seq, 1, Min(n, Len(seq)))

(* random.shuffle(list): every arrangement of it *)
shuffle(seq) ==
    {[i \in 1..Len(seq) |-> seq[p[i]]] : p \in order_by(1..Len(seq), [i \in 1..Len(seq) |-> 0])}

(* Dictionary.level == level.lower() *)
at_level(word_id, level) ==
    word_id \in DictionaryIds /\ Dictionary[word_id].level = lower(level)

due_rows_any_user(table, user_id, level, t) ==
    {i \in DOMAIN table :
        /\ at_level(table[i].word_id, level)
        /\ table[i].next_review # NULL
        /\ table[i].next_review <= t}

(* 1. due_query: Dictionary JOIN UserVocabularyProgress of the user,       *)
(* next_review <= now (not NULL), ORDER BY next_review LIMIT count.        *)
due_rows(table, user_id, level, t) ==
    {i \in DOMAIN table :
        /\ table[i].user_id = user_id
        /\ at_level(table[i].word_id, level)
        /\ table[i].next_review # NULL
        /\ table[i].next_review <= t}

due_words(table, user_id, level, count, t) ==
    {limit([i \in DOMAIN rows |-> table[rows[i]].word_id], count) :
        rows \in order_by(due_rows(table, user_id, level, t),
                          [i \in DOMAIN table |-> table[i].next_review])}

(* 2. practiced_query and new_query, run when len(words) < count. *)
practiced_ids(table, user_id) ==
    {table[i].word_id : i \in {j \in DOMAIN table : table[j].user_id = user_id}}

new_words_practiced(table, user_id, level, count, words) ==
    IF Len(words) < count
    THEN {limit(found, count - Len(words)) :
            found \in order_by({d \in DictionaryIds : at_level(d, level)},
                              [d \in DictionaryIds |-> Dictionary[d].word])}
    ELSE {<<>>}

new_words(table, user_id, level, count, words) ==
    IF Len(words) < count
    THEN {limit(found, count - Len(words)) :
            found \in order_by({d \in DictionaryIds :
                                  at_level(d, level) /\ d \notin practiced_ids(table, user_id)},
                              [d \in DictionaryIds |-> Dictionary[d].word])}
    ELSE {<<>>}

(* 3. random_query, run when len(words) < count: LIMIT remaining * 2,      *)
(* shuffled, the first remaining taken.                                    *)
random_words_repeating(level, count, words) ==
    IF Len(words) < count
    THEN LET remaining == count - Len(words)
         IN  UNION {{limit(shuffled, remaining) : shuffled \in shuffle(limit(found, remaining * 2))} :
                found \in order_by({d \in DictionaryIds : at_level(d, level)},
                                  [d \in DictionaryIds |-> Dictionary[d].word])}
    ELSE {<<>>}

random_words_skipped(level, count, words) == {<<>>}

random_words(level, count, words) ==
    IF Len(words) < count
    THEN LET remaining == count - Len(words)
             existing_ids == {words[i] : i \in DOMAIN words}
         IN  UNION {{limit(shuffled, remaining) : shuffled \in shuffle(limit(found, remaining * 2))} :
                found \in order_by({d \in DictionaryIds :
                                      at_level(d, level) /\ d \notin existing_ids},
                                  [d \in DictionaryIds |-> Dictionary[d].word])}
    ELSE {<<>>}

practice_batch_new_first(due, new, random, count) == limit(new \o due \o random, count)

(* words.extend(...) three times, return words[:count] *)
practice_batch(due, new, random, count) == limit(due \o new \o random, count)

get_practice_words_recording(user_id, level, count) ==
    \E due \in due_words(vocab_progress, user_id, level, count, now) :
    \E new \in new_words(vocab_progress, user_id, level, count, due) :
    \E random \in random_words(level, count, due \o new) :
        /\ call' = [NoCall EXCEPT !.op = "get_practice_words",
                        !.user_id = user_id, !.level = level, !.count = count,
                        !.due = due, !.new = new,
                        !.returned = practice_batch(due, new, random, count)]
        /\ vocab_progress' =
              IF new = <<>> THEN vocab_progress
              ELSE flush_insert(vocab_progress,
                                UserVocabularyProgress(0, user_id, new[1], 0, FALSE))
        /\ UNCHANGED <<grammar_progress, test_history, users, now, sessions>>

get_practice_words(user_id, level, count) ==
    \E due \in due_words(vocab_progress, user_id, level, count, now) :
    \E new \in new_words(vocab_progress, user_id, level, count, due) :
    \E random \in random_words(level, count, due \o new) :
        /\ call' = [NoCall EXCEPT !.op = "get_practice_words",
                        !.user_id = user_id, !.level = level, !.count = count,
                        !.due = due, !.new = new,
                        !.returned = practice_batch(due, new, random, count)]
        /\ UNCHANGED <<grammar_progress, test_history, users, vocab_progress, now, sessions>>

----------------------------------------------------------------------------
(* get_level_progress, get_overall_progress *)

LEVELS == <<"A1", "A2", "B1", "B2", "C1", "C2">>

GRAMMAR_COMPLETION_THRESHOLD == 80
VOCAB_COMPLETION_THRESHOLD == 80

(* The grammar table: static content, level stored upper-case. *)
Grammar ==
    << [id |-> "g1", level |-> "A1"],
       [id |-> "g2", level |-> "B1"] >>

GrammarIds == {Grammar[g].id : g \in DOMAIN Grammar}

(* select(func.count(Grammar.id)).where(Grammar.level == level.upper()) *)
total_grammar(level) ==
    Cardinality({g \in DOMAIN Grammar : Grammar[g].level = upper(level)})

(* count of UserGrammarProgress JOIN Grammar: the user's completed rows    *)
(* whose rule is of the level.                                             *)
completed_grammar(table, user_id, level) ==
    Cardinality({i \in DOMAIN table :
        /\ table[i].user_id = user_id
        /\ table[i].completed
        /\ \E g \in DOMAIN Grammar :
              Grammar[g].id = table[i].grammar_id /\ Grammar[g].level = upper(level)})

(* select(func.count(Dictionary.id)).where(Dictionary.level == level.lower()) *)
total_words(level) ==
    Cardinality({d \in DictionaryIds : Dictionary[d].level = lower(level)})

(* count of UserVocabularyProgress JOIN Dictionary: the user's completed   *)
(* rows whose word is of the level.                                        *)
completed_words_any_user(table, user_id, level) ==
    Cardinality({i \in DOMAIN table :
        /\ table[i].completed
        /\ at_level(table[i].word_id, level)})

completed_words_attempted(table, user_id, level) ==
    Cardinality({i \in DOMAIN table :
        /\ table[i].user_id = user_id
        /\ table[i].attempts > 0
        /\ at_level(table[i].word_id, level)})

completed_words(table, user_id, level) ==
    Cardinality({i \in DOMAIN table :
        /\ table[i].user_id = user_id
        /\ table[i].completed
        /\ at_level(table[i].word_id, level)})

(* (completed / total * 100) if total > 0 else 0, as the exact fraction    *)
(* num/den; a division by zero raises.                                     *)
percentage_unguarded(completed, total) ==
    [num |-> completed * 100, den |-> total,
     raised |-> IF total = 0 THEN "ZeroDivisionError" ELSE "none"]

percentage(completed, total) ==
    IF total > 0
    THEN [num |-> completed * 100, den |-> total, raised |-> "none"]
    ELSE [num |-> 0, den |-> 1, raised |-> "none"]

(* pct >= threshold for a fraction with den > 0; the float quotient and    *)
(* product compare with the integer threshold as the exact values do.      *)
at_least(pct, threshold) == pct.num >= threshold * pct.den

(* round(pct, 1) in tenths: the nearest tenth; where the exact value lies  *)
(* midway between two tenths the float product lies on either side of it.  *)
round_1(pct) ==
    LET q == (pct.num * 10) \div pct.den
        r == (pct.num * 10) % pct.den
    IN  IF 2 * r < pct.den THEN {q}
        ELSE IF 2 * r > pct.den THEN {q + 1}
        ELSE {q, q + 1}

can_advance(grammar_pct, vocab_pct) ==
    /\ at_least(grammar_pct, GRAMMAR_COMPLETION_THRESHOLD)
    /\ at_least(vocab_pct, VOCAB_COMPLETION_THRESHOLD)

(* LEVELS.index(x), for x in LEVELS *)
index(x) == CHOOSE i \in DOMAIN LEVELS : LEVELS[i] = x

(* next_level = None; if can_advance: current_index =                      *)
(* LEVELS.index(level.upper()) (ValueError when it is not in the list);    *)
(* the following level unless it is the last.                              *)
next_level_unconditional(level, advance) ==
    IF upper(level) \notin {LEVELS[i] : i \in DOMAIN LEVELS}
    THEN [raised |-> "ValueError", next_level |-> None]
    ELSE IF index(upper(level)) < Len(LEVELS)
    THEN [raised |-> "none", next_level |-> LEVELS[index(upper(level)) + 1]]
    ELSE [raised |-> "none", next_level |-> None]

next_level(level, advance) ==
    IF ~advance
    THEN [raised |-> "none", next_level |-> None]
    ELSE IF upper(level) \notin {LEVELS[i] : i \in DOMAIN LEVELS}
    THEN [raised |-> "ValueError", next_level |-> None]
    ELSE IF index(upper(level)) < Len(LEVELS)
    THEN [raised |-> "none", next_level |-> LEVELS[index(upper(level)) + 1]]
    ELSE [raised |-> "none", next_level |-> None]

(* Lines 59-86 of get_level_progress on the results of its four count      *)
(* queries: the outcomes it may have, each the exception raised, the       *)
(* dictionary returned and the two unrounded percentages.                  *)
level_progress(level, total_g, completed_g, total_w, completed_w) ==
    LET grammar_pct == percentage(completed_g, total_g)
        vocab_pct == percentage(completed_w, total_w)
    IN  IF grammar_pct.raised # "none" \/ vocab_pct.raised # "none"
        THEN {[raised |-> "ZeroDivisionError", snapshot |-> NoSnapshot,
               grammar_pct |-> [num |-> 0, den |-> 1], vocab_pct |-> [num |-> 0, den |-> 1]]}
        ELSE LET advance == can_advance(grammar_pct, vocab_pct)
                 next == next_level(level, advance)
             IN  IF next.raised # "none"
                 THEN {[raised |-> next.raised, snapshot |-> NoSnapshot,
                        grammar_pct |-> [num |-> grammar_pct.num, den |-> grammar_pct.den],
                        vocab_pct |-> [num |-> vocab_pct.num, den |-> vocab_pct.den]]}
                 ELSE {[raised |-> "none",
                        snapshot |->
                           [level |-> upper(level),
                            total_grammar |-> total_g, completed_grammar |-> completed_g,
                            total_words |-> total_w, completed_words |-> completed_w,
                            grammar_completion_pct |-> g, vocab_completion_pct |-> v,
                            can_advance |-> advance, next_level |-> next.next_level],
                        grammar_pct |-> [num |-> grammar_pct.num, den |-> grammar_pct.den],
                        vocab_pct |-> [num |-> vocab_pct.num, den |-> vocab_pct.den]] :
                          g \in round_1(grammar_pct), v \in round_1(vocab_pct)}

(* The outcomes of get_level_progress(db, user_id, level) on the tables. *)
level_progress_of(vocab_table, grammar_table, user_id, level) ==
    level_progress(level,
                   total_grammar(level), completed_grammar(grammar_table, user_id, level),
                   total_words(level), completed_words(vocab_table, user_id, level))

(* get_level_progress(db, user_id, level) *)
get_level_progress(user_id, level) ==
    \E out \in level_progress_of(vocab_progress, grammar_progress, user_id, level) :
        /\ call' = [NoCall EXCEPT !.op = "get_level_progress",
                        !.user_id = user_id, !.level = level,
                        !.raised = out.raised, !.snapshot = out.snapshot,
                        !.grammar_pct = out.grammar_pct, !.vocab_pct = out.vocab_pct]
        /\ UNCHANGED <<vocab_progress, grammar_progress, test_history, users, now, sessions>>

(* for level in LEVELS: levels_progress[level] = await                     *)
(* get_level_progress(db, user_id, level): the outcomes of the first k     *)
(* calls, in the order of LEVELS.                                          *)
RECURSIVE levels_progress(_, _, _, _)
levels_progress(vocab_table, grammar_table, user_id, k) ==
    IF k = 0 THEN {<<>>}
    ELSE {Append(done, out) :
            done \in levels_progress(vocab_table, grammar_table, user_id, k - 1),
            out \in level_progress_of(vocab_table, grammar_table, user_id, LEVELS[k])}

(* The outcomes of get_overall_progress(db, user_id): ValueError when the  *)
(* user has no row, else the stored current_level and the snapshot of each *)
(* level.                                                                  *)
overall_progress_advancing(users_table, vocab_table, grammar_table, user_id) ==
    IF user_id \notin DOMAIN users_table
    THEN {[raised |-> "ValueError", current_level |-> "", levels |-> <<>>]}
    ELSE {[raised |-> "none",
           current_level |->
               LET here == index(users_table[user_id].current_level)
               IN  IF outs[here].snapshot.can_advance /\ here < Len(LEVELS)
                   THEN LEVELS[here + 1] ELSE LEVELS[here],
           levels |-> [i \in DOMAIN outs |-> outs[i].snapshot]] :
             outs \in levels_progress(vocab_table, grammar_table, user_id, Len(LEVELS))}

overall_progress(users_table, vocab_table, grammar_table, user_id) ==
    IF user_id \notin DOMAIN users_table
    THEN {[raised |-> "ValueError", current_level |-> "", levels |-> <<>>]}
    ELSE {[raised |-> IF \E i \in DOMAIN outs : outs[i].raised # "none"
                      THEN outs[CHOOSE i \in DOMAIN outs : outs[i].raised # "none"].raised
                      ELSE "none",
           current_level |-> users_table[user_id].current_level,
           levels |-> [i \in DOMAIN outs |-> outs[i].snapshot]] :
             outs \in levels_progress(vocab_table, grammar_table, user_id, Len(LEVELS))}

(* get_overall_progress(db, user_id): it reads, and commits nothing. *)
get_overall_progress(user_id) ==
    \E out \in overall_progress(users, vocab_progress, grammar_progress, user_id) :
        /\ call' = [NoCall EXCEPT !.op = "get_overall_progress",
                        !.user_id = user_id, !.raised = out.raised,
                        !.current_level = out.current_level, !.levels = out.levels]
        /\ UNCHANGED <<vocab_progress, grammar_progress, test_history, users, now, sessions>>

(* Lines 59-86 of get_level_progress when its four count queries return    *)
(* these counts: a level with this much content and progress.              *)
get_level_progress_counting(level, total_g, completed_g, total_w, completed_w) ==
    \E out \in level_progress(level, total_g, completed_g, total_w, completed_w) :
        /\ call' = [NoCall EXCEPT !.op = "get_level_progress",
                        !.user_id = 1, !.level = level,
                        !.raised = out.raised, !.snapshot = out.snapshot,
                        !.grammar_pct = out.grammar_pct, !.vocab_pct = out.vocab_pct]
        /\ UNCHANGED <<vocab_progress, grammar_progress, test_history, users, now, sessions>>

(* The f-string of the level_progress route on an outcome of              *)
(* get_level_progress: an exception of the service propagates; the last    *)
(* line concatenates next_level when can_advance is true, and str + None   *)
(* raises TypeError.                                                       *)
level_progress_html(out) ==
    IF out.raised # "none" THEN out.raised
    ELSE IF out.snapshot.can_advance /\ out.snapshot.next_level = None THEN "TypeError"
    ELSE "none"

(* GET /progress/level/{level} of an authenticated user, when the count    *)
(* queries of get_level_progress return these counts.                      *)
level_progress_route(level, total_g, completed_g, total_w, completed_w) ==
    \E out \in level_progress(level, total_g, completed_g, total_w, completed_w) :
        /\ call' = [NoCall EXCEPT !.op = "level_progress",
                        !.user_id = 1, !.level = level,
                        !.raised = level_progress_html(out), !.snapshot = out.snapshot,
                        !.grammar_pct = out.grammar_pct, !.vocab_pct = out.vocab_pct]
        /\ UNCHANGED <<vocab_progress, grammar_progress, test_history, users, now, sessions>>

----------------------------------------------------------------------------
(* check_answer, mark_grammar_completed *)

(* Rule ids a client may submit: the grammar table's, and one of no rule. *)
GrammarInputs == GrammarIds \cup {"g0"}

(* UserGrammarProgress(...) as INSERTed: the column defaults for the       *)
(* columns the constructor leaves unset.                                   *)
UserGrammarProgress(id, user_id, grammar_id) ==
    [id |-> id, user_id |-> user_id, grammar_id |-> grammar_id,
     completed |-> FALSE, total_attempts |-> 0, correct_attempts |-> 0,
     last_attempt |-> NULL]

(* The TestHistory row check_answer adds. *)
TestHistory(id, user_id, grammar_id, is_correct, created_at) ==
    [id |-> id, user_id |-> user_id, grammar_id |-> grammar_id,
     is_correct |-> is_correct, created_at |-> created_at]

(* SELECT ... WHERE user_id = :u AND grammar_id = :g *)
matching_grammar_rows(table, user_id, grammar_id) ==
    {i \in DOMAIN table :
        table[i].user_id = user_id /\ table[i].grammar_id = grammar_id}

(* UniqueConstraint('user_id', 'grammar_id', name='uix_user_grammar') *)
uix_user_grammar(table, user_id, grammar_id) ==
    matching_grammar_rows(table, user_id, grammar_id) = {}

(* The object held after the SELECT: the row, or the new object (id 0). *)
grammar_loaded_or_new(table, user_id, grammar_id) ==
    LET id == scalar_one_or_none(matching_grammar_rows(table, user_id, grammar_id))
    IN  IF id = 0 THEN UserGrammarProgress(0, user_id, grammar_id)
        ELSE IF id = NULL THEN UserGrammarProgress(NULL, user_id, grammar_id)
        ELSE table[id]

grammar_completed_recomputed(progress, correct_attempts) ==
    correct_attempts >= REQUIRED_CORRECT_ATTEMPTS

(* if progress.correct_attempts >= REQUIRED_CORRECT_ATTEMPTS:              *)
(*     progress.completed = True                                           *)
grammar_completed(progress, correct_attempts) ==
    IF correct_attempts >= REQUIRED_CORRECT_ATTEMPTS THEN TRUE ELSE progress.completed

(* check_answer on the in-memory object, t the call's now. *)
checked(progress, is_correct, t) ==
    LET correct_attempts ==
            IF is_correct THEN progress.correct_attempts + 1 ELSE progress.correct_attempts
    IN  [progress EXCEPT
            !.total_attempts = progress.total_attempts + 1,
            !.correct_attempts = correct_attempts,
            !.completed = grammar_completed(progress, correct_attempts),
            !.last_attempt = t]

GrammarColumns == {"completed", "total_attempts", "correct_attempts", "last_attempt"}

(* db.commit() of the progress object: UPDATE of the changed columns of a  *)
(* loaded row, INSERT of a new one unless the unique constraint rejects it.*)
commit_grammar(table, loaded, object) ==
    IF loaded.id = NULL
    THEN [table |-> table, raised |-> "MultipleResultsFound"]
    ELSE IF loaded.id # 0
    THEN [table |-> [table EXCEPT ![loaded.id] =
                        [c \in DOMAIN loaded |->
                            IF c \in GrammarColumns /\ object[c] # loaded[c]
                            THEN object[c] ELSE table[loaded.id][c]]],
          raised |-> "none"]
    ELSE IF uix_user_grammar(table, object.user_id, object.grammar_id)
    THEN [table |-> Append(table, [object EXCEPT !.id = Len(table) + 1]), raised |-> "none"]
    ELSE [table |-> table, raised |-> "IntegrityError"]

(* check_answer(db, user_id, grammar_id, ...), run to its commit;          *)
(* is_correct is the outcome of comparing the two answers.  The history    *)
(* row and the progress row are written in one transaction.                *)
check_answer(user_id, grammar_id, is_correct) ==
    LET progress == grammar_loaded_or_new(grammar_progress, user_id, grammar_id)
        object == checked(progress, is_correct, now)
        done == commit_grammar(grammar_progress, progress, object)
    IN  /\ progress.total_attempts < MaxChecks
        /\ grammar_progress' = done.table
        /\ test_history' =
              IF done.raised = "none"
              THEN Append(test_history,
                          TestHistory(Len(test_history) + 1, user_id, grammar_id, is_correct, now))
              ELSE test_history
        /\ call' = [NoCall EXCEPT !.op = "check_answer",
                        !.user_id = user_id, !.grammar_id = grammar_id,
                        !.is_correct = is_correct, !.raised = done.raised]
        /\ UNCHANGED <<vocab_progress, users, now, sessions>>

(* mark_grammar_completed(db, user_id, grammar_id), run to its commit. *)
mark_grammar_completed(user_id, grammar_id) ==
    LET progress == grammar_loaded_or_new(grammar_progress, user_id, grammar_id)
        object == [progress EXCEPT !.completed = TRUE]
        done == commit_grammar(grammar_progress, progress, object)
    IN  /\ grammar_progress' = done.table
        /\ call' = [NoCall EXCEPT !.op = "mark_grammar_completed",
                        !.user_id = user_id, !.grammar_id = grammar_id,
                        !.raised = done.raised]
        /\ UNCHANGED <<vocab_progress, test_history, users, now, sessions>>

----------------------------------------------------------------------------
(* Specifications *)

(* Sequential requests: a request is served and its response sent before  *)
(* the next one arrives.  Answers and marks come from Submissions, at most *)
(* MaxWrites of them; the first user asks for practice batches.            *)
Next ==
    \/ \E s \in Submissions, is_correct \in BOOLEAN :
          /\ call = NoCall
          /\ total_attempts(vocab_progress) < MaxWrites
          /\ update_word_progress(s[1], s[2], is_correct)
    \/ \E s \in Submissions :
          /\ call = NoCall
          /\ total_attempts(vocab_progress) < MaxWrites
          /\ mark_word_completed(s[1], s[2])
    \/ \E level \in LevelInputs, count \in 0..MaxCount :
          /\ call = NoCall
          /\ get_practice_words(1, level, count)
    \/ respond
    \/ call = NoCall /\ Tick

Spec == Init /\ [][Next]_vars

----------------------------------------------------------------------------
(* Concurrent requests.  Each request runs in its own AsyncSession; the    *)
(* event loop may switch requests at every await: after the SELECT         *)
(* (await db.execute) and at the commit (await db.commit).                 *)

(* update_word_progress up to the result of its SELECT *)
update_word_progress_select(r, user_id, word_id, is_correct) ==
    /\ sessions[r].pc = "idle"
    /\ sessions' = [sessions EXCEPT ![r] =
            [pc |-> "selected", op |-> "update_word_progress",
             is_correct |-> is_correct, now |-> now,
             progress |-> loaded_or_new(vocab_progress, user_id, word_id, 0, FALSE)]]
    /\ UNCHANGED <<grammar_progress, test_history, users, vocab_progress, now, call>>

(* update_word_progress from the SELECT's result to the end of its commit *)
update_word_progress_commit(r) ==
    LET s == sessions[r]
        raised == answer_raises(s.progress, s.is_correct, s.now)
        object == answer(s.progress, s.is_correct, s.now)
        done == IF raised = "none" THEN commit(vocab_progress, s.progress, object)
                ELSE [table |-> vocab_progress, raised |-> raised]
    IN  /\ s.pc = "selected"
        /\ s.op = "update_word_progress"
        /\ vocab_progress' = done.table
        /\ call' = [NoCall EXCEPT !.op = "update_word_progress",
                        !.user_id = s.progress.user_id, !.word_id = s.progress.word_id,
                        !.is_correct = s.is_correct, !.raised = done.raised]
        /\ sessions' = [sessions EXCEPT ![r] = IdleSession]
        /\ UNCHANGED <<grammar_progress, test_history, users, now>>

(* mark_word_completed up to the result of its SELECT *)
mark_word_completed_select(r, user_id, word_id) ==
    /\ sessions[r].pc = "idle"
    /\ sessions' = [sessions EXCEPT ![r] =
            [pc |-> "selected", op |-> "mark_word_completed",
             is_correct |-> FALSE, now |-> now,
             progress |-> loaded_or_new(vocab_progress, user_id, word_id, 1, TRUE)]]
    /\ UNCHANGED <<grammar_progress, test_history, users, vocab_progress, now, call>>

(* mark_word_completed from the SELECT's result to the end of its commit *)
mark_word_completed_commit(r) ==
    LET s == sessions[r]
        object == IF s.progress.id = 0 THEN s.progress ELSE mark_loaded(s.progress)
        done == commit(vocab_progress, s.progress, object)
    IN  /\ s.pc = "selected"
        /\ s.op = "mark_word_completed"
        /\ vocab_progress' = done.table
        /\ call' = [NoCall EXCEPT !.op = "mark_word_completed",
                        !.user_id = s.progress.user_id, !.word_id = s.progress.word_id,
                        !.raised = done.raised]
        /\ sessions' = [sessions EXCEPT ![r] = IdleSession]
        /\ UNCHANGED <<grammar_progress, test_history, users, now>>

(* Requests of ConcurrentSubmissions interleaved; at most MaxWrites        *)
(* answers and marks are made or in flight.                                *)
NextConc ==
    \/ \E r \in Requests, s \in ConcurrentSubmissions, is_correct \in BOOLEAN :
          /\ total_attempts(vocab_progress) + Cardinality(in_flight) < MaxWrites
          /\ update_word_progress_select(r, s[1], s[2], is_correct)
    \/ \E r \in Requests : update_word_progress_commit(r)
    \/ \E r \in Requests, s \in ConcurrentSubmissions :
          /\ total_attempts(vocab_progress) + Cardinality(in_flight) < MaxWrites
          /\ mark_word_completed_select(r, s[1], s[2])
    \/ \E r \in Requests : mark_word_completed_commit(r)
    \/ Tick

SpecConc == Init /\ [][NextConc]_vars

(* Answers to one word by one user, any number of them. *)
NextAnswers ==
    \/ \E is_correct \in BOOLEAN :
          call = NoCall /\ update_word_progress(1, 1, is_correct)
    \/ respond
    \/ call = NoCall /\ Tick

SpecAnswers == Init /\ [][NextAnswers]_vars

(* Answers to, and marks of, one word by one user. *)
NextRow ==
    \/ \E is_correct \in BOOLEAN :
          call = NoCall /\ update_word_progress(1, 1, is_correct)
    \/ call = NoCall /\ mark_word_completed(1, 1)
    \/ respond
    \/ call = NoCall /\ Tick

SpecRow == Init /\ [][NextRow]_vars

(* The progress computation on levels of every size: the count queries    *)
(* return <<completed, total>> for the grammar rules and for the words of  *)
(* the level, completed never above total.  LargeCounts are sizes of real  *)
(* content: 16 items, 404 items.                                           *)
LargeCounts == {<<1, 16>>, <<323, 404>>, <<324, 404>>}

CountInputs ==
    {ct \in (0..MaxTotal) \X (0..MaxTotal) : ct[1] <= ct[2]} \cup LargeCounts

ProgressLevelInputs == {LEVELS[i] : i \in DOMAIN LEVELS} \cup {"a1", "X1"}

NextCounts ==
    \/ /\ call = NoCall
       /\ \E level \in ProgressLevelInputs, g \in CountInputs, w \in CountInputs :
             get_level_progress_counting(level, g[2], g[1], w[2], w[1])
    \/ /\ call = NoCall
       /\ \E level \in ProgressLevelInputs, g \in CountInputs, w \in CountInputs :
             level_progress_route(level, g[2], g[1], w[2], w[1])
    \/ respond

SpecCounts == Init /\ [][NextCounts]_vars

(* Answers to, and marks of, one grammar rule by one user. *)
NextGrammar ==
    \/ \E is_correct \in BOOLEAN :
          call = NoCall /\ check_answer(1, "g1", is_correct)
    \/ call = NoCall /\ mark_grammar_completed(1, "g1")
    \/ respond
    \/ call = NoCall /\ Tick

SpecGrammar == Init /\ [][NextGrammar]_vars

(* The progress views on the tables.  The first user's current_level is   *)
(* the default or one an earlier advance has stored; answers and marks on  *)
(* words of two levels by two users, at most MaxWrites + 1 of them; marks  *)
(* of grammar rules; the first user, and a user id of no row, ask for      *)
(* their progress, with levels in and outside LEVELS.                      *)
LevelSubmissions == {<<1, 1>>, <<1, 4>>, <<2, 1>>}

InitLevel ==
    /\ vocab_progress = <<>>
    /\ grammar_progress = <<>>
    /\ test_history = <<>>
    /\ \E level \in {"A1", "B1"} :
          users = [u \in Users |->
                      IF u = 1 THEN [User(u) EXCEPT !.current_level = level] ELSE User(u)]
    /\ now = 0
    /\ call = NoCall
    /\ sessions = [r \in Requests |-> IdleSession]

NextLevel ==
    \/ /\ call = NoCall
       /\ total_attempts(vocab_progress) < MaxWrites + 1
       /\ \E is_correct \in BOOLEAN : update_word_progress(1, 1, is_correct)
    \/ /\ call = NoCall
       /\ total_attempts(vocab_progress) < MaxWrites + 1
       /\ \E s \in LevelSubmissions : mark_word_completed(s[1], s[2])
    \/ /\ call = NoCall
       /\ \E user_id \in Users, grammar_id \in GrammarIds :
             mark_grammar_completed(user_id, grammar_id)
    \/ /\ call = NoCall
       /\ \E level \in ProgressLevelInputs : get_level_progress(1, level)
    \/ /\ call = NoCall
       /\ \E user_id \in {1, 3} : get_overall_progress(user_id)
    \/ /\ call = NoCall
       /\ get_practice_words(1, "X1", 1)
    \/ respond

SpecLevel == InitLevel /\ [][NextLevel]_vars

(* Practice batches of one user while two users answer: the first user    *)
(* answers two words of a level, one of them also incorrectly, and marks a *)
(* third, which the second user answers; the clock ticks and skips days.   *)
BatchSubmissions == {<<1, 1, TRUE>>, <<1, 1, FALSE>>, <<1, 2, TRUE>>, <<2, 3, TRUE>>}
BatchCounts == {0, 1, MaxCount}

NextBatch ==
    \/ \E s \in BatchSubmissions :
          /\ call = NoCall
          /\ total_attempts(vocab_progress) < MaxWrites + 1
          /\ update_word_progress(s[1], s[2], s[3])
    \/ /\ call = NoCall
       /\ total_attempts(vocab_progress) < MaxWrites + 1
       /\ mark_word_completed(1, 3)
    \/ \E level \in LevelInputs \ {"C2"}, count \in BatchCounts :
          /\ call = NoCall
          /\ get_practice_words(1, level, count)
    \/ \E level \in {"A1", "a1"} :
          /\ call = NoCall
          /\ get_level_progress(1, level)
    \/ /\ call = NoCall
       /\ get_overall_progress(1)
    \/ respond
    \/ call = NoCall /\ Tick
    \/ call = NoCall /\ Day

SpecBatch == Init /\ [][NextBatch]_vars

(* Snapshots taken while answers and marks interleave: two users answer  *)
(* and mark the one word of a level, the first user also a word id that is *)
(* in no dictionary, and marks grammar rules; at most MaxWrites answers    *)
(* and marks of words are made or in flight.                               *)
SnapshotSubmissions == {<<1, 4>>, <<2, 4>>, <<1, 5>>}

NextSnapshots ==
    \/ \E r \in Requests, s \in SnapshotSubmissions, is_correct \in BOOLEAN :
          /\ total_attempts(vocab_progress) + Cardinality(in_flight) < MaxWrites
          /\ update_word_progress_select(r, s[1], s[2], is_correct)
    \/ \E r \in Requests : update_word_progress_commit(r)
    \/ \E r \in Requests, s \in SnapshotSubmissions :
          /\ total_attempts(vocab_progress) + Cardinality(in_flight) < MaxWrites
          /\ mark_word_completed_select(r, s[1], s[2])
    \/ \E r \in Requests : mark_word_completed_commit(r)
    \/ \E grammar_id \in GrammarInputs : mark_grammar_completed(1, grammar_id)
    \/ \E level \in {"A1", "B1"} : get_level_progress(1, level)

SpecSnapshots == Init /\ [][NextSnapshots]_vars

----------------------------------------------------------------------------
(* Properties *)

(* The review state of a pair in a table: its row, or the state a first    *)
(* answer starts from when it has none.                                    *)
review_state(table, user_id, word_id) ==
    LET ids == {i \in DOMAIN table :
                   table[i].user_id = user_id /\ table[i].word_id = word_id}
    IN  IF ids = {} THEN UserVocabularyProgress(0, user_id, word_id, 0, FALSE)
        ELSE table[CHOOSE i \in ids : TRUE]

(* This step is an update_word_progress call with this outcome of the answer. *)
answer_step(is_correct) ==
    /\ call = NoCall
    /\ call'.op = "update_word_progress"
    /\ call'.is_correct = is_correct

before == review_state(vocab_progress, call'.user_id, call'.word_id)
after == review_state(vocab_progress', call'.user_id, call'.word_id)
answered == review_state(vocab_progress, call.user_id, call.word_id)

(* C1: after every answer of any sequence of answers to one (user, word)  *)
(* state, ease_factor lies within [1.3, 2.5].                              *)
C1_EaseFactorBounds ==
    \A i \in DOMAIN vocab_progress :
        /\ vocab_progress[i].ease_factor >= 13
        /\ vocab_progress[i].ease_factor <= 25

(* An incorrect answer was clamped at the lower bound: the seventh wrong   *)
(* answer in a row.                                                        *)
C1_Witness ==
    /\ call.op = "update_word_progress"
    /\ ~call.is_correct
    /\ answered.attempts = 7
    /\ answered.ease_factor = 13

(* C2: two concurrent update_word_progress calls for the same user and     *)
(* word lose no update: the commit of each call leaves the stored attempts *)
(* of the pair one higher than it was just before that commit, so two      *)
(* calls raise it by exactly 2.                                            *)
C2_NoLostUpdate ==
    [][\A r \in Requests :
          (/\ sessions[r].pc = "selected"
           /\ sessions[r].op = "update_word_progress"
           /\ sessions'[r].pc = "idle")
          => review_state(vocab_progress', sessions[r].progress.user_id,
                          sessions[r].progress.word_id).attempts
             = review_state(vocab_progress, sessions[r].progress.user_id,
                            sessions[r].progress.word_id).attempts + 1]_vars

(* C3: in every state, under every interleaving of update_word_progress   *)
(* and mark_word_completed calls, no (user, word) pair has two rows, the   *)
(* pair of the last completed call has a row, and no step removes a row or *)
(* changes the pair a row belongs to.                                      *)
C3_OneRowPerPair ==
    /\ [](\A i, j \in DOMAIN vocab_progress :
             (/\ vocab_progress[i].user_id = vocab_progress[j].user_id
              /\ vocab_progress[i].word_id = vocab_progress[j].word_id) => (i = j))
    /\ []((call.op \in {"update_word_progress", "mark_word_completed"}) =>
             (\E i \in DOMAIN vocab_progress :
                 /\ vocab_progress[i].user_id = call.user_id
                 /\ vocab_progress[i].word_id = call.word_id))
    /\ [][\A i \in DOMAIN vocab_progress :
              /\ i \in DOMAIN vocab_progress'
              /\ vocab_progress'[i].user_id = vocab_progress[i].user_id
              /\ vocab_progress'[i].word_id = vocab_progress[i].word_id]_vars

(* Two requests both found no row for the pair; the second INSERT was      *)
(* rejected by the unique constraint: the pair has the one row.            *)
C3_Witness ==
    /\ call.raised = "IntegrityError"
    /\ Len(vocab_progress) = 1

(* C4 as claimed: in every reachable state, whichever of                   *)
(* update_word_progress and mark_word_completed wrote it, a completed row  *)
(* has correct_count >= REQUIRED_CORRECT_ATTEMPTS.                         *)
C4_CompletedImpliesStreak ==
    \A i \in DOMAIN vocab_progress :
        vocab_progress[i].completed =>
            vocab_progress[i].correct_count >= REQUIRED_CORRECT_ATTEMPTS

(* C4 as amended: update_word_progress keeps the implication: called on a  *)
(* state where completed implies correct_count >= REQUIRED_CORRECT_ATTEMPTS*)
(* (a state it creates is one), it leaves a state where it does.           *)
C4_UpdateKeepsCompletedImpliesStreak ==
    [][(call = NoCall /\ call'.op = "update_word_progress") =>
          ((before.completed => before.correct_count >= REQUIRED_CORRECT_ATTEMPTS)
           => (after.completed => after.correct_count >= REQUIRED_CORRECT_ATTEMPTS))]_vars

(* An answer has just completed a word that was never marked by hand: its  *)
(* three attempts were three correct answers.                              *)
C4_Witness ==
    /\ call.op = "update_word_progress"
    /\ answered.completed
    /\ answered.attempts = 3
    /\ answered.correct_count = 3

(* C5: an incorrect answer leaves correct_count = 0, interval = 1 and      *)
(* completed = false whatever the state before it; from correct_count = 2, *)
(* interval = 6, ease_factor = 2.5 it also leaves ease_factor = 2.3.       *)
C5_IncorrectResets ==
    [][answer_step(FALSE) =>
          (/\ after.correct_count = 0
           /\ after.interval = 1
           /\ ~after.completed
           /\ (before.correct_count = 2 /\ before.interval = 6 /\ before.ease_factor = 25)
                => (after.ease_factor = 23))]_vars

(* An incorrect answer has just been recorded on a word with three earlier *)
(* writes and ease_factor 2.5.                                             *)
C5_Witness ==
    /\ call.op = "update_word_progress"
    /\ ~call.is_correct
    /\ answered.attempts = 4
    /\ answered.correct_count = 0
    /\ answered.ease_factor = 23

(* C6: along any sequence of answers to one word, completed is true in     *)
(* exactly the states whose streak has reached REQUIRED_CORRECT_ATTEMPTS,  *)
(* and it turns true in exactly the step that brings the streak to it.     *)
C6_CompletedAtThreshold ==
    /\ [](\A i \in DOMAIN vocab_progress :
             vocab_progress[i].completed <=>
                 (vocab_progress[i].correct_count >= REQUIRED_CORRECT_ATTEMPTS))
    /\ [][(call = NoCall /\ call'.op = "update_word_progress") =>
              ((~before.completed /\ after.completed)
               <=> (after.correct_count = REQUIRED_CORRECT_ATTEMPTS))]_vars

(* The third correct answer in a row has just completed the word. *)
C6_Witness ==
    /\ call.op = "update_word_progress"
    /\ call.is_correct
    /\ answered.correct_count = REQUIRED_CORRECT_ATTEMPTS
    /\ answered.completed

(* C7 as claimed: once completed is true it stays true in every later      *)
(* step.                                                                   *)
C7_CompletedStaysTrue ==
    [][\A i \in DOMAIN vocab_progress :
          vocab_progress[i].completed => vocab_progress'[i].completed]_vars

(* C7 as amended: an answer to a completed word leaves it completed if and *)
(* only if the answer is correct.                                          *)
C7_CompletedUntilIncorrect ==
    [][(call = NoCall /\ call'.op = "update_word_progress" /\ before.completed) =>
          (after.completed <=> call'.is_correct)]_vars

(* A correct answer has just been recorded on a word already completed by  *)
(* its streak.                                                             *)
C7_Witness ==
    /\ call.op = "update_word_progress"
    /\ call.is_correct
    /\ answered.correct_count = REQUIRED_CORRECT_ATTEMPTS + 1
    /\ answered.completed

(* C8: a correct answer raises correct_count by one and sets interval to 1 *)
(* when the new correct_count is 1, to 6 when it is 2, and otherwise to    *)
(* floor(interval * ease_factor) of the values before the answer; three    *)
(* correct answers on a fresh state give interval 15, ease_factor 2.5 and  *)
(* completed.                                                              *)
C8_IntervalSchedule ==
    /\ []((/\ call.op = "update_word_progress"
            /\ call.is_correct
            /\ answered.attempts = 3
            /\ answered.correct_count = 3)
           => (answered.interval = 15 /\ answered.ease_factor = 25 /\ answered.completed))
    /\ [][answer_step(TRUE) =>
              (/\ after.correct_count = before.correct_count + 1
               /\ after.interval =
                     IF after.correct_count = 1 THEN 1
                     ELSE IF after.correct_count = 2 THEN 6
                     ELSE (before.interval * before.ease_factor) \div 10)]_vars

(* C9: update_word_progress for a word id that is not in the dictionary    *)
(* fails with NotFound and leaves no review state for that id.             *)
C9_UnknownWordRejected ==
    (call.op = "update_word_progress" /\ call.word_id \notin DictionaryIds) =>
        (/\ call.raised = "NotFound"
         /\ \A i \in DOMAIN vocab_progress : vocab_progress[i].word_id # call.word_id)

(* The class of a word for the user of the last call, by the table as it   *)
(* is: 1 due (a row with next_review <= now), 2 new (no row), 3 seen but   *)
(* not due.                                                                *)
priority(word_id) ==
    LET rows == {i \in DOMAIN vocab_progress :
                    /\ vocab_progress[i].user_id = call.user_id
                    /\ vocab_progress[i].word_id = word_id}
    IN  IF \E i \in rows : /\ vocab_progress[i].next_review # NULL
                            /\ vocab_progress[i].next_review <= now
        THEN 1
        ELSE IF rows = {} THEN 2 ELSE 3

(* The best class any word of the requested level has, 4 when the level    *)
(* has no word.                                                            *)
best_priority ==
    LET words == {d \in DictionaryIds : Dictionary[d].level = lower(call.level)}
    IN  IF \E d \in words : priority(d) = 1 THEN 1
        ELSE IF \E d \in words : priority(d) = 2 THEN 2
        ELSE IF words # {} THEN 3 ELSE 4

(* C10: in the list get_practice_words returns, every due word precedes    *)
(* every new word, which precedes every seen-but-not-due word; a batch of  *)
(* size 1 holds a word of the best class the level has: a due word if one  *)
(* exists, else a new word if one exists, else a seen-but-not-due word.    *)
C10_PriorityOrder ==
    (call.op = "get_practice_words") =>
        (/\ \A i, j \in DOMAIN call.returned :
                (i < j) => (priority(call.returned[i]) <= priority(call.returned[j]))
         /\ (call.count = 1 /\ best_priority < 4) =>
                (/\ Len(call.returned) = 1
                 /\ priority(call.returned[1]) = best_priority))

(* A batch of three holds a due word, then a new word, then a word seen    *)
(* but not due.                                                            *)
C10_Witness ==
    /\ call.op = "get_practice_words"
    /\ Len(call.returned) = 3
    /\ priority(call.returned[1]) = 1
    /\ priority(call.returned[2]) = 2
    /\ priority(call.returned[3]) = 3

(* The dictionary words of the level the last call asked for. *)
words_at_level == {d \in DictionaryIds : Dictionary[d].level = lower(call.level)}

(* C11: whatever the progress table, level and count, the list returned by *)
(* one get_practice_words call holds no word id twice.                     *)
C11_NoDuplicates ==
    (call.op = "get_practice_words") =>
        (\A i, j \in DOMAIN call.returned :
            (call.returned[i] = call.returned[j]) => (i = j))

(* A batch of three drew two words from the random stage: one new word     *)
(* followed by the two words already seen and not due.                     *)
C11_Witness ==
    /\ call.op = "get_practice_words"
    /\ Len(call.returned) = 3
    /\ priority(call.returned[1]) = 2
    /\ priority(call.returned[2]) = 3
    /\ priority(call.returned[3]) = 3

(* C12: for count >= 0 get_practice_words raises nothing and returns       *)
(* exactly min(count, number of words at the level) words: never more than *)
(* count, every word of a level that has fewer than count, none for a      *)
(* level without words.                                                    *)
C12_BatchSize ==
    (call.op = "get_practice_words") =>
        (/\ call.raised = "none"
         /\ Len(call.returned) = Min(call.count, Cardinality(words_at_level))
         /\ \A i \in DOMAIN call.returned : call.returned[i] \in words_at_level)

(* Three words were asked of a level that has one, already seen and not    *)
(* due: the batch is that word.                                            *)
C12_Witness ==
    /\ call.op = "get_practice_words"
    /\ call.count = 3
    /\ Len(call.returned) = 1
    /\ priority(call.returned[1]) = 3

(* |x| *)
Abs(x) == IF x >= 0 THEN x ELSE -x

(* C13: get_level_progress computes each percentage as completed / total   *)
(* x 100 (reported to one decimal place) and as 0, raising nothing, when   *)
(* the total is 0: 8 completed of 10 rules is reported as 80.0, and a      *)
(* level without content gives 0 for both and can_advance = false.         *)
C13_Percentages ==
    (call.op = "get_level_progress") =>
        (/\ call.raised # "ZeroDivisionError"
         /\ (call.raised = "none") =>
              LET s == call.snapshot
              IN  /\ (s.total_grammar > 0) =>
                        (/\ call.grammar_pct.num * s.total_grammar
                               = s.completed_grammar * 100 * call.grammar_pct.den
                         /\ 2 * Abs(s.grammar_completion_pct * s.total_grammar
                                      - s.completed_grammar * 1000) <= s.total_grammar)
                  /\ (s.total_words > 0) =>
                        (/\ call.vocab_pct.num * s.total_words
                               = s.completed_words * 100 * call.vocab_pct.den
                         /\ 2 * Abs(s.vocab_completion_pct * s.total_words
                                      - s.completed_words * 1000) <= s.total_words)
                  /\ (s.total_grammar = 0) =>
                        (call.grammar_pct.num = 0 /\ s.grammar_completion_pct = 0)
                  /\ (s.total_words = 0) =>
                        (call.vocab_pct.num = 0 /\ s.vocab_completion_pct = 0)
                  /\ (s.completed_grammar = 8 /\ s.total_grammar = 10) =>
                        (s.grammar_completion_pct = 800)
                  /\ (s.total_grammar = 0 /\ s.total_words = 0) => ~s.can_advance)

(* A level with 10 rules, 8 of them completed, and no word: 80.0 and 0.    *)
C13_Witness ==
    /\ call.op = "get_level_progress"
    /\ call.raised = "none"
    /\ call.snapshot.total_grammar = 10
    /\ call.snapshot.completed_grammar = 8
    /\ call.snapshot.grammar_completion_pct = 800
    /\ call.snapshot.total_words = 0
    /\ call.snapshot.vocab_completion_pct = 0

(* C14: in every snapshot get_level_progress returns, can_advance is true  *)
(* if and only if the grammar percentage reported in that snapshot is at   *)
(* least GRAMMAR_COMPLETION_THRESHOLD and the vocabulary percentage        *)
(* reported in it is at least VOCAB_COMPLETION_THRESHOLD.                  *)
C14_CanAdvanceIffReported ==
    (call.op = "get_level_progress" /\ call.raised = "none") =>
        (call.snapshot.can_advance <=>
            (/\ call.snapshot.grammar_completion_pct >= GRAMMAR_COMPLETION_THRESHOLD * 10
             /\ call.snapshot.vocab_completion_pct >= VOCAB_COMPLETION_THRESHOLD * 10))

(* C15: in every snapshot get_level_progress returns, next_level is the    *)
(* level that follows the snapshot's level in A1, A2, B1, B2, C1, C2 when  *)
(* can_advance is true and the level is not C2, and None when can_advance  *)
(* is false or the level is C2.                                            *)
C15_NextLevel ==
    (call.op = "get_level_progress" /\ call.raised = "none") =>
        LET s == call.snapshot
            following ==
                CASE s.level = "A1" -> "A2"
                  [] s.level = "A2" -> "B1"
                  [] s.level = "B1" -> "B2"
                  [] s.level = "B2" -> "C1"
                  [] s.level = "C1" -> "C2"
                  [] OTHER -> None
        IN  /\ (s.can_advance /\ s.level # "C2") => (s.next_level = following)
            /\ (~s.can_advance \/ s.level = "C2") => (s.next_level = None)

(* The snapshot of C2 with both percentages at 100: can_advance and no     *)
(* next level.                                                             *)
C15_Witness ==
    /\ call.op = "get_level_progress"
    /\ call.raised = "none"
    /\ call.snapshot.level = "C2"
    /\ call.snapshot.can_advance
    /\ call.snapshot.next_level = None

(* C18: in every state a (user, grammar rule) row with correct_attempts >=  *)
(* REQUIRED_CORRECT_ATTEMPTS is completed, and a completed row stays        *)
(* completed in every step: after a correct or an incorrect check_answer    *)
(* and after mark_grammar_completed.                                        *)
C18_GrammarCompletionMonotonic ==
    /\ [](\A i \in DOMAIN grammar_progress :
             (grammar_progress[i].correct_attempts >= REQUIRED_CORRECT_ATTEMPTS)
                 => grammar_progress[i].completed)
    /\ [][\A i \in DOMAIN grammar_progress :
              grammar_progress[i].completed =>
                  (i \in DOMAIN grammar_progress' /\ grammar_progress'[i].completed)]_vars

(* An incorrect answer has just been recorded on a rule that the third     *)
(* correct answer completed, and the rule is still completed.              *)
C18_Witness ==
    /\ call.op = "check_answer"
    /\ ~call.is_correct
    /\ \E i \in DOMAIN grammar_progress :
          /\ grammar_progress[i].completed
          /\ grammar_progress[i].correct_attempts = REQUIRED_CORRECT_ATTEMPTS
          /\ grammar_progress[i].total_attempts = REQUIRED_CORRECT_ATTEMPTS + 1
          /\ grammar_progress[i].last_attempt = now

(* C16: a get_level_progress or get_practice_words call with a level       *)
(* outside A1, A2, B1, B2, C1, C2 ends in an InvalidLevel failure, not in  *)
(* a normal result.                                                        *)
C16_InvalidLevelRejected ==
    (/\ call.op \in {"get_level_progress", "get_practice_words"}
     /\ \A i \in DOMAIN LEVELS : upper(call.level) # LEVELS[i])
        => (call.raised = "InvalidLevel")

(* C17: get_overall_progress returns the user's stored current_level and   *)
(* one snapshot for each of the six levels, and neither it nor             *)
(* get_level_progress changes the users table, can_advance or not.         *)
C17_CurrentLevelNotAdvanced ==
    /\ []((call.op = "get_overall_progress" /\ call.raised = "none") =>
             (/\ call.current_level = users[call.user_id].current_level
              /\ Len(call.levels) = 6
              /\ {call.levels[i].level : i \in DOMAIN call.levels}
                    = {"A1", "A2", "B1", "B2", "C1", "C2"}))
    /\ [][(call'.op \in {"get_overall_progress", "get_level_progress"}) =>
              (users' = users)]_vars

(* The overall progress of a user whose current level is B1 and who can    *)
(* advance from it: current_level is still B1.                             *)
C17_Witness ==
    /\ call.op = "get_overall_progress"
    /\ call.raised = "none"
    /\ call.current_level = "B1"
    /\ users[1].current_level = "B1"
    /\ call.levels[3].can_advance
    /\ call.levels[3].next_level = "B2"

(* C19: the snapshot get_level_progress returns counts the store as it is  *)
(* at the call: completed_words is the number of words of the level whose  *)
(* review state for the user is completed, completed_grammar the number of *)
(* rules of the level whose row for the user is completed, whatever        *)
(* answers and marks set or revoked completed before the call.             *)
C19_SnapshotNotStale ==
    (call.op = "get_level_progress" /\ call.raised = "none") =>
        (/\ call.snapshot.completed_words =
               Cardinality({d \in DictionaryIds :
                   /\ Dictionary[d].level = lower(call.level)
                   /\ review_state(vocab_progress, call.user_id, d).completed})
         /\ call.snapshot.completed_grammar =
               Cardinality({g \in DOMAIN Grammar :
                   /\ Grammar[g].level = upper(call.level)
                   /\ \E i \in DOMAIN grammar_progress :
                         /\ grammar_progress[i].user_id = call.user_id
                         /\ grammar_progress[i].grammar_id = Grammar[g].id
                         /\ grammar_progress[i].completed}))

(* The snapshot of A1 counts no completed word for a user whose only A1    *)
(* review state was marked completed and then answered incorrectly, while  *)
(* the other user's row for the word is completed.                         *)
C19_Witness ==
    /\ call.op = "get_level_progress"
    /\ call.snapshot.level = "A1"
    /\ call.snapshot.completed_words = 0
    /\ review_state(vocab_progress, 1, 1).attempts = 2
    /\ review_state(vocab_progress, 1, 1).last_review # NULL
    /\ ~review_state(vocab_progress, 1, 1).completed
    /\ review_state(vocab_progress, 2, 1).completed

(* C20: in every reachable review state, after any sequence of             *)
(* update_word_progress and mark_word_completed calls, interval is an      *)
(* integer >= 1.                                                           *)
C20_IntervalAtLeastOne ==
    \A i \in DOMAIN vocab_progress :
        /\ vocab_progress[i].interval \in Int
        /\ vocab_progress[i].interval >= 1

(* An incorrect answer, the fourth write to the word, has just left its    *)
(* interval at 1 and taken its ease_factor from 2.5 to 2.3.                *)
C20_Witness ==
    /\ call.op = "update_word_progress"
    /\ ~call.is_correct
    /\ answered.attempts = 4
    /\ answered.interval = 1
    /\ answered.ease_factor = 23
    /\ answered.last_review = now


(* C21: every update_word_progress call takes ease_factor to               *)
(* min(2.5, ease_factor + 0.1) when the answer is correct and to           *)
(* max(1.3, ease_factor - 0.2) when it is not: the new value is a function *)
(* of the old value and of the answer alone.  (Tenths: 25, 1, 13, 2.)      *)
C21_EaseStep ==
    [][\A is_correct \in BOOLEAN :
          answer_step(is_correct) =>
              after.ease_factor =
                  IF is_correct THEN Min(25, before.ease_factor + 1)
                  ELSE Max(13, before.ease_factor - 2)]_vars

(* A correct answer has just taken ease_factor from 2.3 to 2.4: the word's *)
(* two answers were an incorrect one and then this one.                    *)
C21_Witness ==
    /\ call.op = "update_word_progress"
    /\ call.is_correct
    /\ answered.attempts = 2
    /\ answered.correct_count = 1
    /\ answered.ease_factor = 24

(* C22: the first answer to a word with no review state works on           *)
(* attempts 0, correct_count 0, interval 1, ease_factor 2.5; every         *)
(* update_word_progress call, correct or not, raises attempts by exactly   *)
(* one and sets last_review to now; correct_count never exceeds attempts.  *)
C22_AttemptsCount ==
    /\ [](\A i \in DOMAIN vocab_progress :
             vocab_progress[i].correct_count <= vocab_progress[i].attempts)
    /\ [][\A is_correct \in BOOLEAN :
             answer_step(is_correct) =>
                 /\ after.attempts = before.attempts + 1
                 /\ after.last_review = now
                 /\ vocab_progress = <<>> =>
                        /\ after.attempts = 1
                        /\ after.correct_count = (IF is_correct THEN 1 ELSE 0)
                        /\ after.interval = 1
                        /\ after.ease_factor = (IF is_correct THEN 25 ELSE 23)]_vars

(* C23: after every update_word_progress call, correct or not, next_review *)
(* is last_review plus interval days, with the interval the row holds      *)
(* after the call; a call that commits leaves next_review at now plus that *)
(* interval.                                                               *)
C23_NextReviewFromUpdatedInterval ==
    [][\A is_correct \in BOOLEAN :
          answer_step(is_correct) =>
              /\ after.next_review = after.last_review + after.interval * TicksPerDay
              /\ call'.raised = "none" =>
                     after.next_review = now + after.interval * TicksPerDay]_vars

(* The second correct answer in a row, given one tick after the first, has *)
(* taken the interval from 1 to 6 and put next_review six days after now.  *)
C23_Witness ==
    /\ call.op = "update_word_progress"
    /\ call.is_correct
    /\ answered.correct_count = 2
    /\ answered.interval = 6
    /\ answered.last_review = 1
    /\ now = 1
    /\ answered.next_review = 1 + 6 * TicksPerDay


(* C24: the due list of get_practice_words holds only words of the         *)
(* requested level for which the requesting user has a review state with   *)
(* next_review set and not after now, in ascending order of that           *)
(* next_review.                                                            *)
C24_DueStage ==
    call.op = "get_practice_words" =>
        /\ \A i \in DOMAIN call.due :
              /\ call.due[i] \in words_at_level
              /\ \E r \in DOMAIN vocab_progress :
                    /\ vocab_progress[r].user_id = call.user_id
                    /\ vocab_progress[r].word_id = call.due[i]
                    /\ vocab_progress[r].next_review # NULL
                    /\ vocab_progress[r].next_review <= now
        /\ \A i, j \in DOMAIN call.due :
              i < j => review_state(vocab_progress, call.user_id, call.due[i]).next_review
                          <= review_state(vocab_progress, call.user_id, call.due[j]).next_review

(* The due list is word 1 then word 2, the word reviewed later, although   *)
(* word 2 sorts first by spelling; word 3 is due for the other user only   *)
(* and is not in the list.                                                 *)
C24_Witness ==
    /\ call.op = "get_practice_words"
    /\ call.user_id = 1
    /\ call.due = <<1, 2>>
    /\ review_state(vocab_progress, 1, 1).next_review < review_state(vocab_progress, 1, 2).next_review
    /\ Dictionary[2].word < Dictionary[1].word
    /\ review_state(vocab_progress, 2, 3).next_review # NULL
    /\ review_state(vocab_progress, 2, 3).next_review <= now


(* C25: the new list of get_practice_words is empty when the due list      *)
(* already holds count words; otherwise it holds at most count minus the   *)
(* length of the due list words, each of the requested level and with no   *)
(* review state of the requesting user, in ascending order of spelling.    *)
C25_NewStage ==
    call.op = "get_practice_words" =>
        /\ Len(call.due) >= call.count => call.new = <<>>
        /\ Len(call.due) + Len(call.new) <= Max(call.count, Len(call.due))
        /\ \A i \in DOMAIN call.new :
              /\ call.new[i] \in words_at_level
              /\ \A r \in DOMAIN vocab_progress :
                    ~(/\ vocab_progress[r].user_id = call.user_id
                      /\ vocab_progress[r].word_id = call.new[i])
        /\ \A i, j \in DOMAIN call.new :
              i < j => Dictionary[call.new[i]].word <= Dictionary[call.new[j]].word

(* A batch of three: word 1 is due, and the two words the user has no      *)
(* review state for follow in order of spelling; the other user has        *)
(* answered the last of them.                                              *)
C25_Witness ==
    /\ call.op = "get_practice_words"
    /\ call.count = 3
    /\ call.due = <<1>>
    /\ call.new = <<2, 3>>
    /\ Dictionary[2].word < Dictionary[3].word
    /\ \E r \in DOMAIN vocab_progress :
          vocab_progress[r].user_id = 2 /\ vocab_progress[r].word_id = 3


(* C26: get_practice_words, get_level_progress and get_overall_progress    *)
(* leave the progress tables, the test history and the users as they were: *)
(* every word a batch showed as new still has no review state of the user  *)
(* after the call.                                                         *)
C26_ReadsLeaveStore ==
    [][(/\ call = NoCall
        /\ call'.op \in {"get_practice_words", "get_level_progress", "get_overall_progress"})
       => /\ vocab_progress' = vocab_progress
          /\ grammar_progress' = grammar_progress
          /\ test_history' = test_history
          /\ users' = users
          /\ \A i \in DOMAIN call'.new :
                \A r \in DOMAIN vocab_progress' :
                   ~(/\ vocab_progress'[r].user_id = call'.user_id
                     /\ vocab_progress'[r].word_id = call'.new[i])]_vars

(* A batch has shown two new words to a user who has one review state, of  *)
(* another word, and none of the two.                                      *)
C26_Witness ==
    /\ call.op = "get_practice_words"
    /\ Len(call.new) = 2
    /\ \E r \in DOMAIN vocab_progress : vocab_progress[r].user_id = call.user_id
    /\ \A i \in DOMAIN call.new :
          review_state(vocab_progress, call.user_id, call.new[i]).id = 0

(* The lists get_practice_words may return in this state. *)
practice_batches(user_id, level, count) ==
    UNION {UNION {{practice_batch(due, new, random, count) :
                       random \in random_words(level, count, due \o new)} :
                  new \in new_words(vocab_progress, user_id, level, count, due)} :
           due \in due_words(vocab_progress, user_id, level, count, now)}

(* C27: a call of get_practice_words or get_level_progress with level      *)
(* "a1" or "A1" has a result the call with the other spelling has in the   *)
(* same state; the snapshot counts the grammar rules of level "A1" and the *)
(* words of level "a1" and names the level "A1".                           *)
C27_CaseInsensitive ==
    /\ (call.op = "get_practice_words" /\ call.level \in {"a1", "A1"}) =>
           \A level \in {"a1", "A1"} :
              call.returned \in practice_batches(call.user_id, level, call.count)
    /\ (call.op = "get_level_progress" /\ call.level \in {"a1", "A1"}) =>
           /\ \A level \in {"a1", "A1"} :
                 [raised |-> call.raised, snapshot |-> call.snapshot,
                  grammar_pct |-> call.grammar_pct, vocab_pct |-> call.vocab_pct]
                    \in level_progress_of(vocab_progress, grammar_progress, call.user_id, level)
           /\ call.raised = "none"
           /\ call.snapshot.level = "A1"
           /\ call.snapshot.total_grammar =
                 Cardinality({i \in DOMAIN Grammar : Grammar[i].level = "A1"})
           /\ call.snapshot.total_words =
                 Cardinality({d \in DictionaryIds : Dictionary[d].level = "a1"})

(* get_practice_words was asked for level "A1" and returned a due word and *)
(* a new word, both stored with level "a1".                                *)
C27_Witness ==
    /\ call.op = "get_practice_words"
    /\ call.level = "A1"
    /\ call.due # <<>>
    /\ call.new # <<>>
    /\ \A i \in DOMAIN call.returned : Dictionary[call.returned[i]].level = "a1"

(* C30: after an update_word_progress call at time t the review state's    *)
(* next_review is at least one day after t, and a get_practice_words call  *)
(* less than a day after a word's last answer does not have the word in    *)
(* its due list.                                                           *)
C30_NotDueWithinADay ==
    /\ [](call.op = "get_practice_words" =>
            \A r \in DOMAIN vocab_progress :
               (/\ vocab_progress[r].user_id = call.user_id
                /\ vocab_progress[r].last_review # NULL
                /\ now < vocab_progress[r].last_review + TicksPerDay)
               => \A i \in DOMAIN call.due : call.due[i] # vocab_progress[r].word_id)
    /\ [][\A is_correct \in BOOLEAN :
             answer_step(is_correct) => after.next_review >= now + TicksPerDay]_vars

(* Half a day after the user answered word 1, a batch of three has no due  *)
(* word, and has word 1 from the random stage.                             *)
C30_Witness ==
    /\ call.op = "get_practice_words"
    /\ call.count = 3
    /\ review_state(vocab_progress, call.user_id, 1).last_review = 0
    /\ now > 0
    /\ now < TicksPerDay
    /\ call.due = <<>>
    /\ \E i \in DOMAIN call.returned : call.returned[i] = 1


C28_RouteResponds ==
    (/\ call.op = "level_progress"
     /\ \E i \in DOMAIN LEVELS : LEVELS[i] = upper(call.level))
    => call.raised = "none"

====
